---- MODULE Spec2Model ----
(***************************************************************************)
(* Model of the incremental skill-rating engine of deadlock-api-tools:     *)
(* src/mmr-calc/hero_mmr_calc.py (the per-character family) and            *)
(* src/mmr-calc/mmr_calc.py (the aggregate, per-player family).            *)
(*                                                                         *)
(* Ratings are Python floats in the source.  They are modelled as          *)
(* fixed-point integers with SCALE units per rank index; every division    *)
(* truncates toward zero (Div), which keeps the sign symmetry of IEEE      *)
(* division (-a/b = -(a/b)).                                               *)
(*                                                                         *)
(* Times (match_info.start_time, match_info.created_at) are naturals;      *)
(* time 0 stands for the '2024-01-01 00:00:00' default of                  *)
(* get_regression_starting_id.  A match is recorded in match_info after    *)
(* it has started (start_time < created_at) and recordings happen at       *)
(* distinct instants.  Every match of the modelled source passes the       *)
(* mode / outcome / pool filters of both queries.                          *)
(***************************************************************************)
EXTENDS Integers, Sequences, FiniteSets, TLC

\* ------------------------------------------------------------------ bounds
\* number of match ids above the epoch id that the source may hold
MaxMatch == 3
\* players per team (stands for the 6 of "HAVING length(...) = 6")
TeamSize == 1
\* a match starts at most this many instants before it is recorded
MaxDuration == 2
\* stands for the 10000 of "if i % 10000 == 0" (main)
ChunkSize == 2
\* how many times the two fixed rosters of a series play each other
MaxSeries == 5

\* --------------------------------------------------------------- constants
\* fixed-point units per rank index
SCALE == 10 * 10 * 10
\* AND match_id > 28626948
EPOCH_MATCH_ID == 28626948
\* UPDATE_SENSITIVITY = 1.06, in hundredths
UPDATE_SENSITIVITY == 106
\* LEARNING_RATE = 1.5 (hero_mmr_calc.py), in tenths
LEARNING_RATE == 15
\* LEARNING_RATE = 0.9 (mmr_calc.py), in tenths
MMR_LEARNING_RATE == 9
\* ERROR_ADJUSTMENT = 0.2 (mmr_calc.py), in tenths
ERROR_ADJUSTMENT == 2
\* the top tier code tested by the tie-break rule
TOP_BADGE == 116
\* HAVING length(team0_players) = 6 AND length(team1_players) = 6
ROSTER_SIZE == 6
\* ln(10)/400 = 0.005756..., in millionths
LN10_OVER_400 == 5756

RANKS ==
  << 0,
     11, 12, 13, 14, 15, 16,
     21, 22, 23, 24, 25, 26,
     31, 32, 33, 34, 35, 36,
     41, 42, 43, 44, 45, 46,
     51, 52, 53, 54, 55, 56,
     61, 62, 63, 64, 65, 66,
     71, 72, 73, 74, 75, 76,
     81, 82, 83, 84, 85, 86,
     91, 92, 93, 94, 95, 96,
     101, 102, 103, 104, 105, 106,
     111, 112, 113, 114, 115, 116 >>

\* ---------------------------------------------------------------- helpers
\* float division, truncated toward zero in fixed point
Div(a, b) == IF a >= 0 THEN a \div b ELSE -((-a) \div b)

Abs(a) == IF a >= 0 THEN a ELSE -a

Range(s) == {s[k] : k \in 1..Len(s)}

RECURSIVE SumValues(_, _)
\* sum(d.values()) over the keys ks of the dict d
SumValues(d, ks) ==
  IF ks = {} THEN 0
  ELSE LET k == CHOOSE x \in ks : TRUE
       IN  d[k] + SumValues(d, ks \ {k})

\* a merge that adds the new value to the old one instead of replacing it
DictAdd(d1, d2) ==
  [k \in DOMAIN d1 \cup DOMAIN d2 |->
     IF k \in DOMAIN d2
     THEN (IF k \in DOMAIN d1 THEN d1[k] + d2[k] ELSE d2[k])
     ELSE d1[k]]

\* d1.update(d2) / {**d1, **d2}
DictUpdate(d1, d2) ==
  [k \in DOMAIN d1 \cup DOMAIN d2 |-> IF k \in DOMAIN d2 THEN d2[k] ELSE d1[k]]

EmptyDict == [k \in {} |-> 0]

\* a lookup that counts positions from one
RanksIndexOneBased(code) ==
  IF \E k \in 1..Len(RANKS) : RANKS[k] = code
  THEN CHOOSE k \in 1..Len(RANKS) : RANKS[k] = code
  ELSE -1

\* a lookup that falls back to the nearest tier below an unknown code
RanksIndexNearest(code) ==
  IF \E k \in 1..Len(RANKS) : RANKS[k] <= code
  THEN (CHOOSE k \in 1..Len(RANKS) :
          RANKS[k] <= code /\ \A j \in (k + 1)..Len(RANKS) : RANKS[j] > code) - 1
  ELSE -1

\* RANKS.index(code): zero-based position of the first occurrence; -1 stands
\* for the ValueError raised when code is not in the list
RanksIndex(code) ==
  IF \E k \in 1..Len(RANKS) : RANKS[k] = code
  THEN (CHOOSE k \in 1..Len(RANKS) :
          RANKS[k] = code /\ \A j \in 1..(k - 1) : RANKS[j] # code) - 1
  ELSE -1

\* RANK_TO_INDEX = {rank: idx for idx, rank in enumerate(RANKS)}: a later
\* occurrence of a code replaces an earlier one
RANK_TO_INDEX ==
  [code \in Range(RANKS) |->
     (CHOOSE k \in 1..Len(RANKS) :
        RANKS[k] = code /\ \A j \in (k + 1)..Len(RANKS) : RANKS[j] # code) - 1]

\* RANK_TO_INDEX[code]; -1 stands for the KeyError of a code that is no key
RankToIndex(code) ==
  IF code \in DOMAIN RANK_TO_INDEX THEN RANK_TO_INDEX[code] ELSE -1

\* min(RANKS) and max(RANKS)
MinOfRanks == CHOOSE r \in Range(RANKS) : \A q \in Range(RANKS) : r <= q
MaxOfRanks == CHOOSE r \in Range(RANKS) : \A q \in Range(RANKS) : r >= q

\* mmr_calc.clamp_to_rank(mmr) = max(min_rank, min(max_rank, mmr)), the
\* bounds being the least and the greatest entry of RANKS
clamp_to_rank(mmr) ==
  LET capped == IF MaxOfRanks * SCALE < mmr THEN MaxOfRanks * SCALE ELSE mmr
  IN  IF MinOfRanks * SCALE > capped THEN MinOfRanks * SCALE ELSE capped

\* ------------------------------------------------------ RegressionEngine
\* 10 ** (x / 400) for a fixed-point x, as SCALE * exp(x * ln(10) / 400)
\* by the Taylor series of exp up to the fourth power
Pow10Over400(x) ==
  LET y  == Div(x * LN10_OVER_400, 1000000)
      t2 == Div(y * y, 2 * SCALE)
      t3 == Div(t2 * y, 3 * SCALE)
      t4 == Div(t3 * y, 4 * SCALE)
  IN  SCALE + y + t2 + t3 + t4

\* 1 / (1 + 10 ** ((average_team1 - average_team0) / 400))
expected_outcome(average_team0, average_team1) ==
  Div(SCALE * SCALE, SCALE + Pow10Over400(average_team1 - average_team0))

\* the value a raising call leaves behind: nothing is returned
Raised == [ok |-> FALSE, updates |-> EmptyDict, error |-> 0]

\* a seeding with a fixed default: all_player_mmrs.get(p_key, 0)
TeamRanksFixedDefault(players, all_player_mmrs, avg_rank_true) ==
  [p_key \in Range(players) |->
     IF p_key \in DOMAIN all_player_mmrs THEN all_player_mmrs[p_key] ELSE 0]

\* {p_key: all_player_mmrs.get(p_key, avg_rank_true) for p_key in players}
TeamRanks(players, all_player_mmrs, avg_rank_true) ==
  [p_key \in Range(players) |->
     IF p_key \in DOMAIN all_player_mmrs THEN all_player_mmrs[p_key]
     ELSE avg_rank_true * SCALE]

\* sum(team_ranks.values()) / len(team_ranks)
RankPred(team_ranks) ==
  Div(SumValues(team_ranks, DOMAIN team_ranks), Cardinality(DOMAIN team_ranks))

\* the one element of a singleton set; {F(v) : v \in {e}} binds v to the
\* value of e, so that e is computed once
Only(S) == CHOOSE x \in S : TRUE

\* tier-target errors without the tie-break rule of the top tier
TeamErrorsWithoutTieBreak(match, true, pred, ranks) ==
  << Div(true[1] * SCALE - pred[1], Cardinality(DOMAIN ranks[1])),
     Div(true[2] * SCALE - pred[2], Cardinality(DOMAIN ranks[2])) >>

\* tier-target errors that take the target of a team from the other team
TeamErrorsAgainstOpponent(match, true, pred, ranks) ==
  << Div(true[2] * SCALE - pred[1], Cardinality(DOMAIN ranks[1])),
     Div(true[1] * SCALE - pred[2], Cardinality(DOMAIN ranks[2])) >>

\* error0, error1: the tier-target errors of both teams for the predictions
\* pred (the tie-break rule when both teams are at 116)
TeamErrors(match, true, pred, ranks) ==
  LET n0 == Cardinality(DOMAIN ranks[1])
      n1 == Cardinality(DOMAIN ranks[2])
  IN  IF /\ match.teams[1].average_badge_team = TOP_BADGE
         /\ match.teams[2].average_badge_team = TOP_BADGE
      THEN << Div(Div(pred[2] - pred[1], n0), 2),
              Div(Div(pred[1] - pred[2], n1), 2) >>
      ELSE << Div(true[1] * SCALE - pred[1], n0),
              Div(true[2] * SCALE - pred[2], n1) >>

\* avg_team0_rank_pred, avg_team1_rank_pred
RankPreds(ranks) == << RankPred(ranks[1]), RankPred(ranks[2]) >>

\* an outcome pass that moves team0 only
OutcomePassTeam0Only(match, ranks, pred) ==
  Only({ << [k \in DOMAIN ranks[1] |->
               ranks[1][k] + Div(UPDATE_SENSITIVITY * (outcome[1] - outcome[2]),
                                 100)],
            ranks[2] >>
         : outcome \in {<< IF match.teams[1].won THEN SCALE ELSE 0,
                           expected_outcome(pred[1], pred[2]) >>} })

\* the outcome pass: team0_ranks and team1_ranks shifted by
\* update_sensitivity * (outcome0 - expected0) and its negation
OutcomePass(match, ranks, pred) ==
  Only({ << [k \in DOMAIN ranks[1] |->
               ranks[1][k] + Div(UPDATE_SENSITIVITY * (outcome[1] - outcome[2]),
                                 100)],
            [k \in DOMAIN ranks[2] |->
               ranks[2][k] + Div(UPDATE_SENSITIVITY * (outcome[2] - outcome[1]),
                                 100)] >>
         : outcome \in {<< IF match.teams[1].won THEN SCALE ELSE 0,
                           expected_outcome(pred[1], pred[2]) >>} })

\* an anchor pass that forgets the learning rate: r + new_error
AnchorPassWithoutRate(ranks, new_errors) ==
  DictUpdate([k \in DOMAIN ranks[1] |-> ranks[1][k] + new_errors[1]],
             [k \in DOMAIN ranks[2] |-> ranks[2][k] + new_errors[2]])

\* an anchor pass with the sign of the correction flipped
AnchorPassAwayFromTier(ranks, new_errors) ==
  DictUpdate([k \in DOMAIN ranks[1] |->
                ranks[1][k] - Div(LEARNING_RATE * new_errors[1], 10)],
             [k \in DOMAIN ranks[2] |->
                ranks[2][k] - Div(LEARNING_RATE * new_errors[2], 10)])

\* the anchor pass: updates, every rating moved by learning_rate * new_error
AnchorPass(ranks, new_errors) ==
  DictUpdate([k \in DOMAIN ranks[1] |->
                ranks[1][k] + Div(LEARNING_RATE * new_errors[1], 10)],
             [k \in DOMAIN ranks[2] |->
                ranks[2][k] + Div(LEARNING_RATE * new_errors[2], 10)])

\* run_regression from the outcome pass on, for the seeded ratings ranks,
\* their means pred and the errors of the first computation.  Besides the
\* returned pair (updates, error) the record keeps the locals of the call:
\* start (team0_ranks and team1_ranks as seeded), errors (error0, error1),
\* moved (team0_ranks and team1_ranks after the outcome pass) and new_errors
\* (new_error0, new_error1)
Passes(match, true, ranks, errors) ==
  Only({ Only({ [ok         |-> TRUE,
                 updates    |-> AnchorPass(moved, new_errors),
                 error      |-> Div(Abs(errors[1]) + Abs(errors[2]), 2),
                 start      |-> DictUpdate(ranks[1], ranks[2]),
                 errors     |-> errors,
                 moved      |-> DictUpdate(moved[1], moved[2]),
                 new_errors |-> new_errors]
                : new_errors \in
                    {TeamErrors(match, true, RankPreds(moved), moved)} })
         : moved \in {OutcomePass(match, ranks, RankPreds(ranks))} })

\* run_regression once both tier codes are known to be in RANKS
Seeded(match, all_player_mmrs, true) ==
  Only({ Only({ Passes(match, true, ranks, errors)
                : errors \in {TeamErrors(match, true, RankPreds(ranks), ranks)} })
         : ranks \in {<< TeamRanks(match.teams[1].players, all_player_mmrs,
                                   true[1]),
                         TeamRanks(match.teams[2].players, all_player_mmrs,
                                   true[2]) >>} })

\* hero_mmr_calc.run_regression with the default constants; Raised stands for
\* the AssertionError, the ValueError of RANKS.index and the
\* ZeroDivisionError of an empty roster
run_regression(match, all_player_mmrs) ==
  IF Len(match.teams) # 2 THEN Raised
  ELSE Only({ IF true[1] < 0 \/ true[2] < 0 THEN Raised
              ELSE IF \/ match.teams[1].players = << >>
                      \/ match.teams[2].players = << >>
              THEN Raised
              ELSE Seeded(match, all_player_mmrs, true)
              : true \in {<< RanksIndex(match.teams[1].average_badge_team),
                             RanksIndex(match.teams[2].average_badge_team) >>} })

\* the body of the team loop of mmr_calc.run_regression once the tier code
\* is known to be in RANKS
MmrTeamUpdate(team, team_ranks, avg_team_rank_true) ==
  Only({ [ok      |-> TRUE,
          updates |-> [k \in DOMAIN team_ranks |->
                         team_ranks[k] + Div(MMR_LEARNING_RATE * error, 10)],
          error   |-> Abs(error),
          start   |-> team_ranks]
         : error \in
             {Div(avg_team_rank_true * SCALE - RankPred(team_ranks),
                  Cardinality(DOMAIN team_ranks))
              + (IF team.won THEN Div(ERROR_ADJUSTMENT * SCALE, 10)
                 ELSE -Div(ERROR_ADJUSTMENT * SCALE, 10))} })

\* one team of mmr_calc.run_regression: its updates and its error, or the
\* ValueError of RANKS.index / the ZeroDivisionError of an empty roster
MmrTeam(team, all_player_mmrs) ==
  Only({ IF avg_team_rank_true < 0 \/ team.players = << >> THEN Raised
         ELSE Only({ MmrTeamUpdate(team, team_ranks, avg_team_rank_true)
                     : team_ranks \in
                         {TeamRanks(team.players, all_player_mmrs,
                                    avg_team_rank_true)} })
         : avg_team_rank_true \in {RanksIndex(team.average_badge_team)} })

RECURSIVE MmrTeams(_, _, _, _)
\* the "for team in match.teams" loop of mmr_calc.run_regression from team k
MmrTeams(match, all_player_mmrs, k, acc) ==
  IF k > Len(match.teams) THEN acc
  ELSE Only({ IF ~r.ok THEN Raised
              ELSE MmrTeams(match, all_player_mmrs, k + 1,
                            [ok      |-> TRUE,
                             updates |-> DictUpdate(acc.updates, r.updates),
                             error   |-> acc.error + r.error,
                             start   |-> DictUpdate(acc.start, r.start)])
              : r \in {MmrTeam(match.teams[k], all_player_mmrs)} })

\* mmr_calc.run_regression
mmr_run_regression(match, all_player_mmrs) ==
  MmrTeams(match, all_player_mmrs, 1,
           [ok |-> TRUE, updates |-> EmptyDict, error |-> 0,
            start |-> EmptyDict])

\* ------------------------------------------------------------------ state
VARIABLES
  family,          \* "hero" (hero_mmr_calc.py) or "player" (mmr_calc.py)
  source,          \* MatchSource: the eligible rows of match_info/match_player
  store,           \* RatingStore: the rows of hero_mmr_history / mmr_history
  pc,              \* position of the __main__ loop
  starting_id,     \* main: starting_id
  matches,         \* main: matches
  all_player_mmrs, \* main: all_player_mmrs (the snapshot)
  updates,         \* main: updates (the pending buffer)
  i,               \* main: the index of enumerate(matches)
  nap,             \* the argument of the sleep call in progress, 0 if none
  cycle_rows,      \* history: the rows the running cycle has inserted
  aborted,         \* history: what the cycle that raised had fetched, written
  recovery,        \* history: what a pass cut by a crash would have stored
  calls,           \* history: the run_regression calls of the latest pass
  shelf,           \* the rows of the history table of the other family
  clamp,           \* a call of clamp_to_rank: its argument and its value
  proxy            \* a call of call_steam_proxy: its frame and its outcome

vars == << family, source, store, pc, starting_id, matches, all_player_mmrs,
           updates, i, nap, cycle_rows, aborted, recovery, calls, shelf,
           clamp, proxy >>

locals == << starting_id, matches, all_player_mmrs, updates, i >>

history == << cycle_rows, aborted, recovery >>

\* what a step of the rating loop of this family does not touch
outside == << shelf, clamp, proxy >>

\* no call of clamp_to_rank or call_steam_proxy is in progress
NoCall == [pc |-> "idle"]

\* the other table is empty and nothing but the rating loop runs
NothingOutside ==
  /\ shelf = {}
  /\ clamp = NoCall
  /\ proxy = NoCall

\* the value of starting_id before get_regression_starting_id has returned
NoId == 0

\* the value of a history variable that records nothing
None == [kind |-> "none"]

\* the value of recovery in a pass during which the source has grown
Stale == [kind |-> "stale"]

MatchIds == (EPOCH_MATCH_ID + 1)..(EPOCH_MATCH_ID + MaxMatch)

Heroes == {1, 2}

\* the hero column of the aggregate family, which has none
NoHero == 0

\* team0 is accounts 1..TeamSize, team1 the next TeamSize accounts
Team0Players(hero) == [k \in 1..TeamSize |-> << k, hero >>]
Team1Players(hero) == [k \in 1..TeamSize |-> << TeamSize + k, hero >>]

\* the match bodies the modelled feed delivers: team0 on hero 1 or hero 2,
\* and one match whose team0 tier code (17) is not in RANKS
Shapes ==
  { [hero |-> 1, badge0 |-> 11, badge1 |-> 12, winner |-> "Team0"],
    [hero |-> 2, badge0 |-> 11, badge1 |-> 12, winner |-> "Team1"],
    [hero |-> 1, badge0 |-> 17, badge1 |-> 12, winner |-> "Team0"] }

\* ----------------------------------------------------------- MatchSource
\* a collector records match id: a row of match_info with its match_player
\* rows, created_at being the instant of the insertion
Record(id, shape, duration) ==
  /\ \A m \in source : m.match_id # id
  /\ LET created == Cardinality(source) + 1
     IN  source' = source \cup
           {[match_id            |-> id,
             start_time          |-> IF created > duration
                                     THEN created - duration ELSE 0,
             created_at          |-> created,
             team0_players       |-> Team0Players(shape.hero),
             team1_players       |-> Team1Players(1),
             average_badge_team0 |-> shape.badge0,
             average_badge_team1 |-> shape.badge1,
             winning_team        |-> shape.winner]}
  /\ UNCHANGED << outside, family, store, pc, locals, nap, cycle_rows, aborted, calls >>

\* how long before its row is created a match has started: the shortest and
\* the longest delay
Durations == {1, MaxDuration}

\* the collectors record matches in any order of their ids
Ingest ==
  \E id \in MatchIds, shape \in Shapes, duration \in Durations :
    /\ Record(id, shape, duration)
    /\ UNCHANGED recovery

\* the collectors record matches in the order of their ids
IngestInOrder ==
  \E id \in MatchIds, shape \in Shapes, duration \in Durations :
    /\ \A m \in source : m.match_id < id
    /\ Record(id, shape, duration)
    /\ UNCHANGED recovery

\* the collectors record a match while a pass that may be killed is observed:
\* a source that grows during the pass or its recovery ends the observation
IngestWatched ==
  \E id \in MatchIds, shape \in Shapes, duration \in Durations :
    /\ Record(id, shape, duration)
    /\ recovery' = IF pc \in {"fetch", "load", "apply", "flush"}
                   THEN Stale ELSE None

\* the entity key of a match_player row: (account_id, hero_id) or account_id
EntityKey(fam, p) == IF fam = "hero" THEN p ELSE << p[1], NoHero >>

\* Match(match_id=row[0], teams=[MatchTeam(...), MatchTeam(...)])
ToMatch(fam, row) ==
  [match_id |-> row.match_id,
   teams |->
     << [players |-> [k \in 1..Len(row.team0_players) |->
                        EntityKey(fam, row.team0_players[k])],
         average_badge_team |-> row.average_badge_team0,
         won |-> row.winning_team = "Team0"],
        [players |-> [k \in 1..Len(row.team1_players) |->
                        EntityKey(fam, row.team1_players[k])],
         average_badge_team |-> row.average_badge_team1,
         won |-> row.winning_team = "Team1"] >>]

RECURSIVE OrderByMatchId(_)
\* ORDER BY match_id of a set of rows with distinct match ids
OrderByMatchId(rows) ==
  IF rows = {} THEN << >>
  ELSE LET first == CHOOSE r \in rows : \A q \in rows : r.match_id <= q.match_id
       IN  << first >> \o OrderByMatchId(rows \ {first})

\* get_matches_starting_from(client, start_id)
get_matches_starting_from(fam, src, start_id) ==
  LET rows    == {m \in src : /\ m.match_id > start_id
                              /\ Len(m.team0_players) = TeamSize
                              /\ Len(m.team1_players) = TeamSize}
      ordered == OrderByMatchId(rows)
  IN  [k \in 1..Len(ordered) |-> ToMatch(fam, ordered[k])]

\* ----------------------------------------------------------- RatingStore
\* the first query of get_regression_starting_id: start_time of the rated
\* match with the greatest match id, or the '2024-01-01' default (time 0)
MinCreatedAt(src, st) ==
  LET rated == {m \in src : \E r \in st : r.match_id = m.match_id}
  IN  IF rated = {} THEN 0
      ELSE (CHOOSE m \in rated :
              \A q \in rated : q.match_id <= m.match_id).start_time

\* the rows of the second query of get_regression_starting_id
StartCandidates(src, st) ==
  {m \in src : /\ m.created_at > MinCreatedAt(src, st)
               /\ m.match_id > EPOCH_MATCH_ID}

\* get_regression_starting_id(client); -1 stands for the IndexError of
\* client.execute(query)[0][0] on an empty result
get_regression_starting_id(src, st) ==
  LET cands == StartCandidates(src, st)
  IN  IF cands = {} THEN -1
      ELSE (CHOOSE m \in cands :
              \A q \in cands : m.created_at <= q.created_at).match_id

\* the rows get_all_player_mmrs may return: for every account one of its
\* rows with the greatest match_id <= at_match_id (LIMIT 1 BY account_id)
TopRows(st, at_match_id, account) ==
  LET mine == {r \in st : r.account_id = account /\ r.match_id <= at_match_id}
  IN  {r \in mine : \A q \in mine : q.match_id <= r.match_id}

\* {(row[0], row[1]): row[2] for row in result} for one choice of rows
SnapshotOf(picked) ==
  [key \in {<< r.account_id, r.hero_id >> : r \in picked} |->
     (CHOOSE r \in picked : << r.account_id, r.hero_id >> = key).player_score]

RECURSIVE Picks(_, _, _)
\* the result sets of the query: one of its top rows for every account
Picks(st, at_match_id, accounts) ==
  IF accounts = {} THEN {{}}
  ELSE LET a == CHOOSE b \in accounts : TRUE
       IN  {rest \cup {r} : rest \in Picks(st, at_match_id, accounts \ {a}),
                            r \in TopRows(st, at_match_id, a)}

\* the snapshots get_all_player_mmrs(client, at_match_id) may return
get_all_player_mmrs(st, at_match_id) ==
  LET accounts == {r.account_id : r \in {q \in st : q.match_id <= at_match_id}}
  IN  {SnapshotOf(picked) : picked \in Picks(st, at_match_id, accounts)}

\* the rows set_player_mmr(client, data) inserts
InsertedRows(data) ==
  UNION {{[account_id   |-> key[1],
           hero_id      |-> key[2],
           match_id     |-> data[k][1],
           player_score |-> data[k][2][key]] : key \in DOMAIN data[k][2]}
         : k \in 1..Len(data)}

\* the ratings the store holds for each entity at its greatest match id
LatestRatings(st) ==
  [key \in {<< r.account_id, r.hero_id >> : r \in st} |->
     {r.player_score : r \in
        {q \in st : /\ << q.account_id, q.hero_id >> = key
                    /\ \A o \in st : << o.account_id, o.hero_id >> = key
                                       => o.match_id <= q.match_id}}]

\* ------------------------------------------------------------ UpdateLoop
\* UPDATE_INTERVAL = 2 * 60
UPDATE_INTERVAL == 2 * 60
\* sleep(10)
BACKOFF_SECONDS == 10

\* how long a call of main may take, in seconds
CycleSeconds == {1, UPDATE_INTERVAL}

FreshLocals ==
  /\ starting_id' = NoId
  /\ matches' = << >>
  /\ all_player_mmrs' = EmptyDict
  /\ updates' = << >>
  /\ i' = 0

\* an exception that leaves the frame of main alive: its snapshot and its
\* pending buffer stay where the next cycle finds them
RaiseKeepingFrame(cause) ==
  /\ pc' = "backoff"
  /\ nap' = BACKOFF_SECONDS
  /\ UNCHANGED locals
  /\ aborted' = [kind    |-> cause,
                 fetched |-> [k \in 1..Len(matches) |-> matches[k].match_id],
                 rows    |-> cycle_rows]
  /\ cycle_rows' = {}
  /\ recovery' = None

\* an exception leaves main: its frame is dropped and the bare except of the
\* __main__ loop logs it and calls sleep(10)
Raise(cause) ==
  /\ pc' = "backoff"
  /\ nap' = BACKOFF_SECONDS
  /\ FreshLocals
  /\ aborted' = [kind    |-> cause,
                 fetched |-> [k \in 1..Len(matches) |-> matches[k].match_id],
                 rows    |-> cycle_rows]
  /\ cycle_rows' = {}
  /\ recovery' = None

\* main returns; the __main__ loop sleeps for the rest of UPDATE_INTERVAL
\* when the call took less than that
Return ==
  /\ \E duration \in CycleSeconds :
       IF duration < UPDATE_INTERVAL
       THEN pc' = "sleep" /\ nap' = UPDATE_INTERVAL - duration
       ELSE pc' = "resume" /\ nap' = 0
  /\ FreshLocals
  /\ cycle_rows' = {}
  /\ recovery' = IF recovery.kind = "pending"
                 THEN [recovery EXCEPT !.kind = "done"] ELSE None

\* the table the first query of get_regression_starting_id reads
StartIdTable(fam) == IF fam = "hero" THEN "hero_mmr_history" ELSE "mmr_history"

\* a get_all_player_mmrs that reads mmr_history in both files
SnapshotTableShared(fam) == "mmr_history"

\* the table get_all_player_mmrs reads
SnapshotTable(fam) == IF fam = "hero" THEN "hero_mmr_history" ELSE "mmr_history"

\* the table set_player_mmr inserts into
InsertTable(fam) == IF fam = "hero" THEN "hero_mmr_history" ELSE "mmr_history"

\* the family of the other program
Other(fam) == IF fam = "hero" THEN "player" ELSE "hero"

\* the rows of the table of that name: store is the table this family
\* inserts into, shelf the table the other family inserts into
ReadTable(name) == IF name = InsertTable(family) THEN store ELSE shelf

\* starting_id = get_regression_starting_id(client)
Resume ==
  /\ pc = "resume"
  /\ LET id == get_regression_starting_id(source,
                                          ReadTable(StartIdTable(family)))
     IN  IF id < 0
         THEN Raise("call")
         ELSE /\ starting_id' = id
              /\ pc' = "fetch"
              /\ recovery' = IF recovery.kind = "pending" THEN recovery ELSE None
              /\ UNCHANGED << matches, all_player_mmrs, updates, i, nap,
                              cycle_rows, aborted >>
  /\ calls' = << >>
  /\ UNCHANGED << outside, family, source, store >>

\* matches = get_matches_starting_from(client, starting_id)
Fetch ==
  /\ pc = "fetch"
  /\ LET ms == get_matches_starting_from(family, source, starting_id)
     IN  IF Len(ms) <= 0
         THEN Return /\ UNCHANGED aborted
         ELSE /\ matches' = ms
              /\ pc' = "load"
              /\ UNCHANGED << starting_id, all_player_mmrs, updates, i, nap,
                              history >>
  /\ UNCHANGED << outside, family, source, store, calls >>

\* all_player_mmrs = get_all_player_mmrs(client, starting_id); updates = []
Load ==
  /\ pc = "load"
  /\ all_player_mmrs' \in
       get_all_player_mmrs(ReadTable(SnapshotTable(family)), starting_id)
  /\ updates' = << >>
  /\ i' = 0
  /\ pc' = "apply"
  /\ UNCHANGED << outside, family, source, store, starting_id, matches, nap, history,
                  calls >>

\* run_regression of the family the loop belongs to
Regression(fam, match, mmrs) ==
  IF fam = "hero" THEN run_regression(match, mmrs)
  ELSE mmr_run_regression(match, mmrs)

\* a flush test that never fires inside the loop
FlushDueNever(idx) == FALSE

\* a flush test that fires after every full chunk: (i + 1) % 10000 == 0
FlushDueAfterChunk(idx) == idx % ChunkSize = ChunkSize - 1

\* if i % 10000 == 0
FlushDue(idx) == idx % ChunkSize = 0

\* a seeding by all_player_mmrs.setdefault: the first team's absent entities
\* are written into the dict before the second team's tier is looked up
SnapshotAfterSeeding(fam, match, mmrs) ==
  IF Len(match.teams) = 0 THEN mmrs
  ELSE IF RanksIndex(match.teams[1].average_badge_team) < 0 THEN mmrs
  ELSE TeamRanks(match.teams[1].players, mmrs,
                 RanksIndex(match.teams[1].average_badge_team)) @@ mmrs

\* all_player_mmrs as a call of run_regression leaves it: both variants only
\* read the dict (all_player_mmrs.get), also on the way to a raise
SnapshotAfter(fam, match, mmrs) == mmrs

\* a write that replaces the earlier rows of the entities it writes
InsertInPlace(st, data) ==
  {r \in st : \A q \in InsertedRows(data) :
                << q.account_id, q.hero_id >> # << r.account_id, r.hero_id >>}
    \cup InsertedRows(data)

\* set_player_mmr(client, data): the table after the INSERT
Insert(st, data) == st \cup InsertedRows(data)

\* one iteration of "for i, match in enumerate(matches)"
Apply ==
  /\ pc = "apply"
  /\ \E r \in {Regression(family, matches[i + 1], all_player_mmrs)} :
     \E after \in {SnapshotAfter(family, matches[i + 1], all_player_mmrs)} :
     \E data \in {Append(updates, << matches[i + 1].match_id, r.updates >>)} :
       /\ calls' = Append(calls, [match  |-> matches[i + 1],
                                  before |-> all_player_mmrs,
                                  after  |-> after,
                                  result |-> r])
       /\ IF ~r.ok
          THEN Raise("regression") /\ UNCHANGED store
          ELSE \/ /\ all_player_mmrs' = DictUpdate(after, r.updates)
                  /\ IF FlushDue(i)
                     THEN /\ store' = Insert(store, data)
                          /\ cycle_rows' = cycle_rows \cup InsertedRows(data)
                          /\ updates' = << >>
                     ELSE /\ updates' = data
                          /\ UNCHANGED << store, cycle_rows >>
                  /\ i' = i + 1
                  /\ pc' = IF i + 1 < Len(matches) THEN "apply" ELSE "flush"
                  /\ UNCHANGED << starting_id, matches, nap, aborted,
                                  recovery >>
               \/ \* set_player_mmr raises
                  /\ FlushDue(i)
                  /\ Raise("call")
                  /\ UNCHANGED store
  /\ UNCHANGED << outside, family, source >>

\* a main that returns without the set_player_mmr after the loop
FlushWithoutInsert ==
  /\ pc = "flush"
  /\ Return
  /\ UNCHANGED << outside, family, source, store, aborted, calls >>

\* the set_player_mmr(client, updates) after the loop, then main returns
Flush ==
  /\ pc = "flush"
  /\ store' = Insert(store, updates)
  /\ Return
  /\ UNCHANGED << outside, family, source, aborted, calls >>

\* a store or source call of Resume, Fetch, Load or the last Flush raises
CallFails ==
  /\ pc \in {"resume", "fetch", "load", "flush"}
  /\ Raise("call")
  /\ UNCHANGED << outside, family, source, store, calls >>

\* an except branch that raises again: the exception ends the process
BackoffEndsProcess ==
  /\ pc = "backoff"
  /\ pc' = "exit"
  /\ nap' = 0
  /\ aborted' = None
  /\ calls' = << >>
  /\ UNCHANGED << outside, family, source, store, locals, cycle_rows, recovery >>

\* the sleep(10) of the except branch is over: back to "while True"
Backoff ==
  /\ pc = "backoff"
  /\ pc' = "resume"
  /\ nap' = 0
  /\ aborted' = None
  /\ calls' = << >>
  /\ UNCHANGED << outside, family, source, store, locals, cycle_rows, recovery >>

\* the sleep(UPDATE_INTERVAL - (end - start)) is over: back to "while True"
Sleep ==
  /\ pc = "sleep"
  /\ pc' = "resume"
  /\ nap' = 0
  /\ recovery' = None
  /\ calls' = << >>
  /\ UNCHANGED << outside, family, source, store, locals, cycle_rows, aborted >>

RECURSIVE ApplyRest(_, _, _, _)
\* the rows the rest of the pass writes from index idx on with snapshot mmrs,
\* or "raised" when run_regression raises for one of the matches
ApplyRest(fam, ms, idx, mmrs) ==
  IF idx >= Len(ms) THEN [ok |-> TRUE, rows |-> {}]
  ELSE LET r == Regression(fam, ms[idx + 1], mmrs)
       IN  IF ~r.ok THEN [ok |-> FALSE, rows |-> {}]
           ELSE LET rest == ApplyRest(fam, ms, idx + 1,
                                      DictUpdate(mmrs, r.updates))
                IN  [ok   |-> rest.ok,
                     rows |-> rest.rows \cup
                              InsertedRows(<< << ms[idx + 1].match_id,
                                                 r.updates >> >>)]

\* the process is killed inside Apply and started again: nothing of main
\* survives but what set_player_mmr has inserted.  recovery records the
\* latest ratings the pass would have left in the store, when the source has
\* not grown since the pass began and no later match of the list raises
Crash ==
  /\ pc \in {"apply", "flush"}
  /\ recovery = None
  /\ pc' = "resume"
  /\ nap' = 0
  /\ FreshLocals
  /\ cycle_rows' = {}
  /\ LET rest == ApplyRest(family, matches, i, all_player_mmrs)
     IN  recovery' =
           IF rest.ok
           THEN [kind   |-> "pending",
                 latest |-> LatestRatings(store \cup InsertedRows(updates)
                                                \cup rest.rows)]
           ELSE None
  /\ calls' = << >>
  /\ UNCHANGED << outside, family, source, store, aborted >>

Init ==
  /\ family \in {"hero", "player"}
  /\ source = {}
  /\ store = {}
  /\ pc = "resume"
  /\ starting_id = NoId
  /\ matches = << >>
  /\ all_player_mmrs = EmptyDict
  /\ updates = << >>
  /\ i = 0
  /\ nap = 0
  /\ cycle_rows = {}
  /\ aborted = None
  /\ recovery = None
  /\ calls = << >>
  /\ NothingOutside

Next ==
  \/ Ingest
  \/ Resume
  \/ Fetch
  \/ Load
  \/ Apply
  \/ Flush
  \/ CallFails
  \/ Backoff
  \/ Sleep

Spec == Init /\ [][Next]_vars

\* the loop with a process that may be killed inside Apply and restarted
CrashNext ==
  \/ IngestWatched
  \/ Resume
  \/ Fetch
  \/ Load
  \/ Apply
  \/ Flush
  \/ CallFails
  \/ Backoff
  \/ Sleep
  \/ Crash

CrashSpec == Init /\ [][CrashNext]_vars

\* the sequential program always takes its next step
LoopStep == Resume \/ Fetch \/ Load \/ Apply \/ Flush \/ Backoff \/ Sleep

\* the loop against a source that grows in match-id order
FairNext ==
  \/ IngestInOrder
  \/ Resume
  \/ Fetch
  \/ Load
  \/ Apply
  \/ Flush
  \/ CallFails
  \/ Backoff
  \/ Sleep

FairSpec == Init /\ [][FairNext]_vars /\ WF_vars(LoopStep)

\* a window of a longer history: MaxMatch matches recorded in id order, the
\* first k of them rated in order by earlier passes, main about to load the
\* snapshot for the rest
WindowSource(body) ==
  {[match_id            |-> EPOCH_MATCH_ID + n,
    start_time          |-> IF n > body[n][2] THEN n - body[n][2] ELSE 0,
    created_at          |-> n,
    team0_players       |-> Team0Players(body[n][1].hero),
    team1_players       |-> Team1Players(1),
    average_badge_team0 |-> body[n][1].badge0,
    average_badge_team1 |-> body[n][1].badge1,
    winning_team        |-> body[n][1].winner] : n \in 1..MaxMatch}

RatedPrefix(fam, src, k) ==
  ApplyRest(fam, get_matches_starting_from(fam,
                   {m \in src : m.match_id <= EPOCH_MATCH_ID + k},
                   EPOCH_MATCH_ID),
            0, EmptyDict)

SnapInit ==
  /\ family \in {"hero", "player"}
  /\ source \in {WindowSource(body) :
                   body \in [1..MaxMatch -> Shapes \X Durations]}
  /\ store \in {RatedPrefix(family, source, k).rows : k \in 1..(MaxMatch - 1)}
  /\ store # {}
  /\ pc = "load"
  /\ starting_id = get_regression_starting_id(source, store)
  /\ matches = get_matches_starting_from(family, source, starting_id)
  /\ matches # << >>
  /\ all_player_mmrs = EmptyDict
  /\ updates = << >>
  /\ i = 0
  /\ nap = 0
  /\ cycle_rows = {}
  /\ aborted = None
  /\ recovery = None
  /\ calls = << >>
  /\ NothingOutside

SnapNext == Load

SnapSpec == SnapInit /\ [][SnapNext]_vars

\* run_regression as a function of its arguments: one call of the loop body
\* on a drawn match and a drawn snapshot.  The tier codes are those of rank
\* index 10 and 12, the top code and a code that is not in RANKS
RegBadges == {RANKS[11], RANKS[13], TOP_BADGE, 17}

\* the ratings a drawn snapshot holds: rank index 10 and 11.5
RegRatings == {10 * SCALE, 11 * SCALE + SCALE \div 2}

\* MatchTeam(players=roster, average_badge_team=badge, won=won)
RegTeam(fam, roster, badge, won) ==
  [players |-> [k \in 1..Len(roster) |-> EntityKey(fam, << roster[k], 1 >>)],
   average_badge_team |-> badge,
   won |-> won]

\* the won flags of the two teams: winning_team is 'Team0', 'Team1' or a
\* value that is neither
RegOutcomes == {<< TRUE, FALSE >>, << FALSE, TRUE >>, << FALSE, FALSE >>}

\* two teams of one or two players each
RegPairs(fam) ==
  {<< RegTeam(fam, r0, b0, w[1]), RegTeam(fam, r1, b1, w[2]) >> :
     r0 \in {<< 1 >>, << 1, 2 >>}, r1 \in {<< 3 >>, << 3, 4 >>},
     b0 \in RegBadges, b1 \in RegBadges, w \in RegOutcomes}

\* Match objects with no, one, two and three teams
RegMatches(fam) ==
  {[match_id |-> EPOCH_MATCH_ID + 1, teams |-> ts] :
     ts \in {<< >>} \cup {<< p[1] >> : p \in RegPairs(fam)}
           \cup RegPairs(fam)
           \cup {Append(p, RegTeam(fam, << 5 >>, RANKS[11], FALSE)) :
                   p \in RegPairs(fam)}}

\* the participants of a match
Participants(match) ==
  UNION {Range(match.teams[k].players) : k \in 1..Len(match.teams)}

\* snapshots that rate some of the participants of the match
RegSnapshots(match) ==
  UNION {[present -> RegRatings] : present \in SUBSET Participants(match)}

RegInit ==
  /\ family \in {"hero", "player"}
  /\ source = {}
  /\ store = {}
  /\ pc = "apply"
  /\ starting_id = EPOCH_MATCH_ID
  /\ matches \in {<< m >> : m \in RegMatches(family)}
  /\ all_player_mmrs \in RegSnapshots(matches[1])
  /\ updates = << >>
  /\ i = 0
  /\ nap = 0
  /\ cycle_rows = {}
  /\ aborted = None
  /\ recovery = None
  /\ calls = << >>
  /\ NothingOutside

RegNext == Apply

RegSpec == RegInit /\ [][RegNext]_vars

\* a source that holds the matches body describes, recorded in id order one
\* time unit apart, each of duration 1
RecordedSource(body) ==
  {[match_id            |-> EPOCH_MATCH_ID + n,
    start_time          |-> n - 1,
    created_at          |-> n,
    team0_players       |-> Team0Players(body[n].hero),
    team1_players       |-> Team1Players(1),
    average_badge_team0 |-> body[n].badge0,
    average_badge_team1 |-> body[n].badge1,
    winning_team        |-> body[n].winner] : n \in DOMAIN body}

\* the number of matches a source holds whose first pass runs past a full
\* chunk: the flush at index 0, a full chunk and one match more, after the
\* match the resume point leaves out
PassLength == ChunkSize + 3

\* main on an empty store and a source of PassLength matches, at the first
\* iteration of its loop
PassInit ==
  /\ family \in {"hero", "player"}
  /\ source \in {RecordedSource(body) : body \in [1..PassLength -> Shapes]}
  /\ store = {}
  /\ pc = "apply"
  /\ starting_id = get_regression_starting_id(source, store)
  /\ matches = get_matches_starting_from(family, source, starting_id)
  /\ all_player_mmrs = EmptyDict
  /\ updates = << >>
  /\ i = 0
  /\ nap = 0
  /\ cycle_rows = {}
  /\ aborted = None
  /\ recovery = None
  /\ calls = << >>
  /\ NothingOutside

PassNext ==
  \/ Apply
  \/ Flush

PassSpec == PassInit /\ [][PassNext]_vars

\* the match bodies whose tier codes are both in RANKS
WellFormed == {shape \in Shapes : shape.badge0 \in Range(RANKS)
                                  /\ shape.badge1 \in Range(RANKS)}

\* the collectors record well-formed matches in any order of their ids
IngestWellFormed ==
  \E id \in MatchIds, shape \in WellFormed, duration \in Durations :
    /\ Record(id, shape, duration)
    /\ UNCHANGED recovery

\* an iteration of the loop of main in which set_player_mmr does not fail
ApplyOnWorkingStore ==
  /\ Apply
  /\ pc' = "backoff" => aborted'.kind = "regression"

\* the steps the sequential program takes when no store or source call fails
WorkingStep ==
  Resume \/ Fetch \/ Load \/ ApplyOnWorkingStore \/ Flush \/ Backoff \/ Sleep

\* the loop with a working store and source and a feed of well-formed matches
SoundNext ==
  \/ IngestWellFormed
  \/ Resume
  \/ Fetch
  \/ Load
  \/ ApplyOnWorkingStore
  \/ Flush
  \/ Backoff
  \/ Sleep

SoundSpec == Init /\ [][SoundNext]_vars /\ WF_vars(WorkingStep)

\* the loop with a working store and source and a feed that may hold a match
\* with an unknown tier code
WorkingNext ==
  \/ IngestInOrder
  \/ Resume
  \/ Fetch
  \/ Load
  \/ ApplyOnWorkingStore
  \/ Flush
  \/ Backoff
  \/ Sleep

WorkingSpec == Init /\ [][WorkingNext]_vars /\ WF_vars(WorkingStep)

\* the tier codes of the two rosters of a series, both below the top tier:
\* rank index 10 and 12, twice 10, and the second highest against the lowest
SeriesTiers ==
  {<< RANKS[11], RANKS[13] >>, << RANKS[11], RANKS[11] >>,
   << RANKS[Len(RANKS) - 1], RANKS[1] >>}

\* the rows of MaxSeries + 1 matches between the same two rosters of
\* ROSTER_SIZE entities at the tiers tiers, recorded in id order; wins[n] says
\* whether team0 wins the match after the n-th
SeriesSource(tiers, wins) ==
  {[match_id            |-> EPOCH_MATCH_ID + n,
    start_time          |-> n - 1,
    created_at          |-> n,
    team0_players       |-> [k \in 1..ROSTER_SIZE |-> << k, 1 >>],
    team1_players       |-> [k \in 1..ROSTER_SIZE |-> << ROSTER_SIZE + k, 1 >>],
    average_badge_team0 |-> tiers[1],
    average_badge_team1 |-> tiers[2],
    winning_team        |-> IF n > 1 /\ ~wins[n - 1] THEN "Team1" ELSE "Team0"]
     : n \in 1..(MaxSeries + 1)}

\* get_matches_starting_from on the source of a series, whose rosters have
\* the ROSTER_SIZE entities the HAVING clause asks for
SeriesMatches(src, start_id) ==
  LET ordered == OrderByMatchId({m \in src : m.match_id > start_id})
  IN  [k \in 1..Len(ordered) |-> ToMatch("hero", ordered[k])]

\* update_sensitivity * (n / learning_rate - 1) for rosters of ROSTER_SIZE
DriftBound ==
  Div(UPDATE_SENSITIVITY * SCALE * (10 * ROSTER_SIZE - LEARNING_RATE),
      100 * LEARNING_RATE)

\* the snapshots a series starts from: cold start, and, standing for the
\* series longer than MaxSeries, the ratings of an earlier series that has
\* taken the mean of each team to its true rank index or DriftBound away
SeriesSnapshots(tiers) ==
  {EmptyDict} \cup
  {[key \in {<< k, 1 >> : k \in 1..(2 * ROSTER_SIZE)} |->
      IF key[1] <= ROSTER_SIZE THEN RanksIndex(tiers[1]) * SCALE + gap[1]
      ELSE RanksIndex(tiers[2]) * SCALE + gap[2]]
     : gap \in {-DriftBound, 0, DriftBound} \X {-DriftBound, 0, DriftBound}}

\* hero_mmr_calc.main on an empty store and the source of a series, at the
\* first iteration of its loop
SeriesInit ==
  /\ family = "hero"
  /\ source \in {SeriesSource(tiers, wins) :
                   tiers \in SeriesTiers, wins \in [1..MaxSeries -> BOOLEAN]}
  /\ store = {}
  /\ pc = "apply"
  /\ starting_id = get_regression_starting_id(source, store)
  /\ matches = SeriesMatches(source, starting_id)
  /\ all_player_mmrs \in
       SeriesSnapshots(<< matches[1].teams[1].average_badge_team,
                          matches[1].teams[2].average_badge_team >>)
  /\ updates = << >>
  /\ i = 0
  /\ nap = 0
  /\ cycle_rows = {}
  /\ aborted = None
  /\ recovery = None
  /\ calls = << >>
  /\ NothingOutside

SeriesNext ==
  \/ Apply
  \/ Flush

SeriesSpec == SeriesInit /\ [][SeriesNext]_vars

\* the variables of the rating loop
loop == << family, source, store, pc, locals, nap, history, calls >>

\* the rating loop of mmr_calc.py before its first step
LoopAtRest ==
  /\ family = "player"
  /\ source = {}
  /\ store = {}
  /\ pc = "resume"
  /\ starting_id = NoId
  /\ matches = << >>
  /\ all_player_mmrs = EmptyDict
  /\ updates = << >>
  /\ i = 0
  /\ nap = 0
  /\ cycle_rows = {}
  /\ aborted = None
  /\ recovery = None
  /\ calls = << >>

\* the arguments clamp_to_rank is called with: every half rank from below
\* the least entry of RANKS to above the greatest
ClampInputs == {k * (SCALE \div 2) : k \in (-4)..(2 * TOP_BADGE + 4)}

ClampInit ==
  /\ LoopAtRest
  /\ shelf = {}
  /\ proxy = NoCall
  /\ clamp \in {[pc |-> "call", mmr |-> mmr, ret |-> 0] : mmr \in ClampInputs}

\* return max(min_rank, min(max_rank, mmr))
Clamp ==
  /\ clamp.pc = "call"
  /\ clamp' = [pc |-> "done", mmr |-> clamp.mmr, ret |-> clamp_to_rank(clamp.mmr)]
  /\ UNCHANGED << loop, shelf, proxy >>

ClampNext == Clamp

ClampSpec == ClampInit /\ [][ClampNext]_vars

\* MAX_RETRIES = 3
MAX_RETRIES == 3

\* what an attempt can raise inside the try: the post fails, raise_for_status,
\* a body without "data", FromString on bytes that are no message
Exceptions == {"ConnectionError", "HTTPError", "KeyError", "DecodeError"}

\* an exception "except Exception" does not catch
Interrupt == "KeyboardInterrupt"

\* the messages response_type.FromString can return
Responses == {"response_a", "response_b"}

\* call_steam_proxy is entered: i is the value of the loop variable, attempts
\* counts the calls of call_steam_proxy_raw, caught lists the exceptions the
\* except clause has logged
ProxyInit ==
  /\ LoopAtRest
  /\ shelf = {}
  /\ clamp = NoCall
  /\ proxy = [pc |-> "try", i |-> 0, attempts |-> 0, caught |-> << >>,
              result |-> "none"]

\* a test for the last attempt that no value of range(MAX_RETRIES) passes
LastAttemptOffByOne(idx) == idx = MAX_RETRIES

\* if i == MAX_RETRIES - 1
LastAttempt(idx) == idx = MAX_RETRIES - 1

\* the attempt succeeds: return response_type.FromString(data)
ProxyReturns ==
  /\ proxy.pc = "try"
  /\ \E response \in Responses :
       proxy' = [proxy EXCEPT !.pc = "returned", !.attempts = @ + 1,
                              !.result = response]
  /\ UNCHANGED << loop, shelf, clamp >>

\* the attempt raises an Exception: it is logged, re-raised on the last
\* attempt, and otherwise the for loop goes on; the statement after the loop
\* raises the RuntimeError
ProxyCatches ==
  /\ proxy.pc = "try"
  /\ \E e \in Exceptions :
       proxy' =
         IF LastAttempt(proxy.i)
         THEN [proxy EXCEPT !.pc = "raised", !.attempts = @ + 1,
                            !.caught = Append(@, e), !.result = e]
         ELSE IF proxy.i + 1 < MAX_RETRIES
         THEN [proxy EXCEPT !.i = @ + 1, !.attempts = @ + 1,
                            !.caught = Append(@, e)]
         ELSE [proxy EXCEPT !.pc = "broken", !.attempts = @ + 1,
                            !.caught = Append(@, e), !.result = "RuntimeError"]
  /\ UNCHANGED << loop, shelf, clamp >>

\* the attempt is cut by an exception that is no Exception: it leaves the
\* function at once
ProxyInterrupted ==
  /\ proxy.pc = "try"
  /\ proxy' = [proxy EXCEPT !.pc = "raised", !.attempts = @ + 1,
                            !.result = Interrupt]
  /\ UNCHANGED << loop, shelf, clamp >>

ProxyNext ==
  \/ ProxyReturns
  \/ ProxyCatches
  \/ ProxyInterrupted

ProxySpec == ProxyInit /\ [][ProxyNext]_vars

\* the other program rates its next match: set_player_mmr of the other file
\* inserts the rows of the least match of the source it has not rated yet
OtherLoopWrites ==
  /\ \E m \in source :
       /\ \A q \in source :
            q.match_id < m.match_id => \E r \in shelf : r.match_id = q.match_id
       /\ \A r \in shelf : r.match_id # m.match_id
       /\ \E r \in {Regression(Other(family), ToMatch(Other(family), m),
                               EmptyDict)} :
            /\ r.ok
            /\ \E rows \in {InsertedRows(<< << m.match_id, r.updates >> >>)} :
                 IF InsertTable(Other(family)) = InsertTable(family)
                 THEN store' = store \cup rows /\ UNCHANGED shelf
                 ELSE shelf' = shelf \cup rows /\ UNCHANGED store
  /\ UNCHANGED << family, source, pc, locals, nap, history, calls, clamp,
                  proxy >>

\* both programs start against an empty database and a source that holds
\* MaxMatch matches recorded in id order
DuoInit ==
  /\ family \in {"hero", "player"}
  /\ source \in {WindowSource(body) : body \in [1..MaxMatch -> Shapes \X {1}]}
  /\ store = {}
  /\ pc = "resume"
  /\ starting_id = NoId
  /\ matches = << >>
  /\ all_player_mmrs = EmptyDict
  /\ updates = << >>
  /\ i = 0
  /\ nap = 0
  /\ cycle_rows = {}
  /\ aborted = None
  /\ recovery = None
  /\ calls = << >>
  /\ NothingOutside

\* the steps of this loop and the inserts of the other program, in any order
DuoNext ==
  \/ Resume
  \/ Fetch
  \/ Load
  \/ Apply
  \/ Flush
  \/ Backoff
  \/ Sleep
  \/ OtherLoopWrites

DuoSpec == DuoInit /\ [][DuoNext]_vars

\* ----------------------------------------------------------------- claims
\* run_regression raises for this match because a tier code is not in RANKS
UnknownTier(match) ==
  \E k \in 1..Len(match.teams) :
    RanksIndex(match.teams[k].average_badge_team) < 0

\* C1: when run_regression fails in Apply because a team's tier code is not
\* in RANKS, only that match is skipped and the cycle goes on with the later
\* matches of the list; the cycle is not aborted.
C1_UnknownTierSkipsOnlyThatMatch ==
  [][(pc = "apply" /\ i + 1 < Len(matches) /\ UnknownTier(matches[i + 1]))
       => (pc' # "backoff" /\ matches' = matches)]_vars

\* C2: the snapshot loaded at the checkpoint starting_id has one entry for
\* every entity with a row of match id <= starting_id, namely the rating of
\* that entity's row with the greatest such match id.
C2_SnapshotIsLatestPerEntity ==
  (pc = "apply" /\ i = 0) =>
    LET latest == LatestRatings({r \in store : r.match_id <= starting_id})
    IN  /\ DOMAIN all_player_mmrs = DOMAIN latest
        /\ \A key \in DOMAIN latest : all_player_mmrs[key] \in latest[key]

\* C3: after a crash inside Apply, the restarted loop, run to the end of the
\* list, leaves every entity with the same latest rating in the store as the
\* pass would have left without the crash.
C3_CrashRecoveryEqualsUninterrupted ==
  recovery.kind = "done" => LatestRatings(store) = recovery.latest

\* C4: with a non-empty store the resume point is the greatest match id that
\* has a rating row.
C4_ResumeAtLastRatedMatch ==
  (pc = "fetch" /\ store # {}) =>
    \A r \in store : r.match_id <= starting_id
                     /\ \E q \in store : q.match_id = starting_id

\* C5: with an empty store the resume point is the epoch match id, so the
\* first Fetch returns every match with a greater id.
C5_ResumeAtEpochWhenEmpty ==
  (pc = "fetch" /\ store = {}) => starting_id = EPOCH_MATCH_ID

RECURSIVE ApplyInOrder(_, _, _, _)
\* the snapshot after applying ms[idx + 1 ..] in order to mmrs, a match for
\* which run_regression raises being skipped
ApplyInOrder(fam, ms, idx, mmrs) ==
  IF idx >= Len(ms) THEN mmrs
  ELSE LET r == Regression(fam, ms[idx + 1], mmrs)
       IN  ApplyInOrder(fam, ms, idx + 1,
                        IF r.ok THEN DictUpdate(mmrs, r.updates) ELSE mmrs)

\* the snapshot that reflects every match of the source with id < n
CausalSnapshot(fam, src, n) ==
  LET before == OrderByMatchId({m \in src : m.match_id < n})
  IN  ApplyInOrder(fam, [k \in 1..Len(before) |-> ToMatch(fam, before[k])],
                   0, EmptyDict)

\* C6: when run_regression is called for match N, the matches of the pass
\* are in strictly increasing id order and the snapshot is the result of
\* applying, in order, every eligible match with id < N and no other.
C6_SnapshotReflectsAllEarlierMatches ==
  pc = "apply" =>
    /\ \A j, k \in 1..Len(matches) :
         j < k => matches[j].match_id < matches[k].match_id
    /\ all_player_mmrs = CausalSnapshot(family, source, matches[i + 1].match_id)

C8_AbortBacksOffThenResumes ==
  [][/\ (pc # "backoff" /\ pc' = "backoff") =>
          /\ nap' = BACKOFF_SECONDS
          /\ matches' = << >>
          /\ all_player_mmrs' = EmptyDict
          /\ updates' = << >>
     /\ (pc = "backoff" /\ pc' # "backoff") =>
          /\ pc' = "resume"
          /\ matches' = << >>
          /\ all_player_mmrs' = EmptyDict
          /\ updates' = << >>]_vars

C8_Witness ==
  /\ pc = "backoff"
  /\ aborted.kind = "call"
  /\ aborted.rows # {}
  /\ Len(aborted.fetched) > 1

\* C9: no bad match and no failing call ends the loop: the loop is in Resume
\* again and again forever, hence again after every failure (from any state,
\* the backoff of a failure included, a later state is in Resume).
C9_LoopAlwaysReturnsToResume == []<>(pc = "resume")

C9_Witness ==
  pc = "backoff" /\ aborted.kind = "regression"

\* the store holds the row (match id, entity, rating)
HasRow(st, match_id, key, rating) ==
  \E r \in st : /\ r.match_id = match_id
                /\ << r.account_id, r.hero_id >> = key
                /\ r.player_score = rating

\* C11: when a pass over a non-empty fetched list has completed without
\* error, nothing is pending and the store holds, for every match of the pass
\* and every participant, a row with the rating run_regression returned.
C11_CompletedPassWroteEveryMatch ==
  (pc \in {"sleep", "resume"} /\ calls # << >>)
    => /\ updates = << >>
       /\ \A k \in 1..Len(calls) :
            /\ calls[k].result.ok
            /\ DOMAIN calls[k].result.updates = Participants(calls[k].match)
            /\ \A key \in Participants(calls[k].match) :
                 HasRow(store, calls[k].match.match_id, key,
                        calls[k].result.updates[key])

C11_Witness ==
  /\ pc = "sleep"
  /\ Len(calls) > 1

\* C12: after a cycle that processed at least one match the loop goes to
\* Resume without sleeping; it sleeps only after a cycle whose Fetch returned
\* no match.
C12_SleepsOnlyAfterEmptyFetch ==
  [][/\ (pc = "flush" /\ pc' \notin {"flush", "backoff"}) => pc' = "resume"
     /\ (pc # "sleep" /\ pc' = "sleep") => pc = "fetch"]_vars

\* C13: every step leaves the existing rows of the store in place: the set of
\* rows only grows.
C13_StoreOnlyGrows == [][store \subseteq store']_vars

C13_Witness ==
  \E r \in store, q \in store :
    /\ << r.account_id, r.hero_id >> = << q.account_id, q.hero_id >>
    /\ r.match_id < q.match_id

C15_MergeOverwritesParticipantsOnly ==
  (pc \in {"apply", "flush"} /\ calls # << >>)
    => LET c == calls[Len(calls)]
       IN  /\ DOMAIN all_player_mmrs =
                DOMAIN c.before \cup Participants(c.match)
           /\ \A key \in DOMAIN all_player_mmrs :
                all_player_mmrs[key] =
                  IF key \in Participants(c.match)
                  THEN c.result.updates[key] ELSE c.before[key]

C15_Witness ==
  /\ pc \in {"apply", "flush"}
  /\ calls # << >>
  /\ LET c == calls[Len(calls)]
     IN  /\ \E key \in DOMAIN c.before : key \notin Participants(c.match)
         /\ \E key \in DOMAIN c.before :
              /\ key \in Participants(c.match)
              /\ c.before[key] # 0
              /\ c.result.updates[key] # c.before[key]

\* C16: run_regression fails, returning no ratings, for every match whose
\* number of teams is not two, in both variants.
C16_RejectsTeamCountNotTwo ==
  \A k \in 1..Len(calls) :
    Len(calls[k].match.teams) # 2 => ~calls[k].result.ok

\* C17: the starting rating of a participant is its snapshot value when the
\* snapshot has one, and otherwise the rank index of its own team's tier.
C17_StartIsSnapshotOrOwnTier ==
  \A k \in 1..Len(calls) :
    calls[k].result.ok =>
      \A t \in 1..Len(calls[k].match.teams) :
        \A key \in Range(calls[k].match.teams[t].players) :
          calls[k].result.start[key] =
            IF key \in DOMAIN calls[k].before THEN calls[k].before[key]
            ELSE RanksIndex(calls[k].match.teams[t].average_badge_team) * SCALE

C17_Witness ==
  \E k \in 1..Len(calls) :
    /\ calls[k].result.ok
    /\ Len(calls[k].match.teams) = 2
    /\ calls[k].match.teams[1].average_badge_team
         # calls[k].match.teams[2].average_badge_team
    /\ \E key \in Participants(calls[k].match) : key \in DOMAIN calls[k].before
    /\ \E key \in Participants(calls[k].match) :
         key \notin DOMAIN calls[k].before

\* a returned call of hero_mmr_calc.run_regression on two teams at the top tier
BothAtTop(c) ==
  /\ family = "hero"
  /\ c.result.ok
  /\ c.match.teams[1].average_badge_team = TOP_BADGE
  /\ c.match.teams[2].average_badge_team = TOP_BADGE

\* C18: when both teams are at the top tier, the tie-break errors of the two
\* teams are negations of each other, in the first computation and in the
\* recomputation after the outcome pass, for every pair of rosters.
C18_TieBreakErrorsAreNegations ==
  \A k \in 1..Len(calls) :
    BothAtTop(calls[k]) =>
      /\ calls[k].result.errors[1] = -calls[k].result.errors[2]
      /\ calls[k].result.new_errors[1] = -calls[k].result.new_errors[2]

\* the starting ratings of team t of a returned call, and their mean
StartOf(c, t) ==
  [key \in Range(c.match.teams[t].players) |-> c.result.start[key]]

\* a returned call of hero_mmr_calc.run_regression in which the predicted rank
\* of each team equals its true rank index
PredictedIsTrue(c) ==
  /\ family = "hero"
  /\ c.result.ok
  /\ \A t \in 1..2 :
       RankPred(StartOf(c, t)) =
         RanksIndex(c.match.teams[t].average_badge_team) * SCALE

\* update_sensitivity * (outcome0 - expected0) for team0, negated for team1
OutcomeShift(c, t) ==
  LET expected0 == expected_outcome(RankPred(StartOf(c, 1)),
                                    RankPred(StartOf(c, 2)))
      outcome0  == IF c.match.teams[1].won THEN SCALE ELSE 0
  IN  IF t = 1 THEN Div(UPDATE_SENSITIVITY * (outcome0 - expected0), 100)
      ELSE Div(UPDATE_SENSITIVITY * (expected0 - outcome0), 100)

\* C19 as stated: when each team's predicted rank equals its true rank index,
\* the returned error is 0 and every returned rating is the starting rating
\* plus the outcome-pass shift of its team and nothing else.
C19_OnTargetGivesPureOutcomeShift ==
  \A k \in 1..Len(calls) :
    PredictedIsTrue(calls[k]) =>
      /\ calls[k].result.error = 0
      /\ \A t \in 1..2 : \A key \in Range(calls[k].match.teams[t].players) :
           calls[k].result.updates[key] =
             calls[k].result.start[key] + OutcomeShift(calls[k], t)

\* C19 as amended: when each team's predicted rank equals its true rank
\* index, the returned error is 0 and every returned rating is the starting
\* rating plus the outcome-pass shift of its team plus the anchor-pass
\* correction learning_rate * new_error, where new_error is minus that shift
\* divided by the size of the team.
C19_OnTargetGivesShiftAndAnchor ==
  \A k \in 1..Len(calls) :
    PredictedIsTrue(calls[k]) =>
      /\ calls[k].result.error = 0
      /\ \A t \in 1..2 : \A key \in Range(calls[k].match.teams[t].players) :
           calls[k].result.updates[key] =
             calls[k].result.start[key] + OutcomeShift(calls[k], t)
               + Div(LEARNING_RATE
                       * Div(-OutcomeShift(calls[k], t),
                             Len(calls[k].match.teams[t].players)), 10)

C19_Witness ==
  \E k \in 1..Len(calls) :
    /\ PredictedIsTrue(calls[k])
    /\ Len(calls[k].match.teams[1].players) = 2
    /\ \E key \in Participants(calls[k].match) : key \in DOMAIN calls[k].before
    /\ OutcomeShift(calls[k], 1) # 0

\* the cold-start scenario: two 1-player teams, team0 at rank index 10, team1
\* at rank index 12, both entities absent from the snapshot, team0 wins, rated
\* by hero_mmr_calc.run_regression
ColdStart(c) ==
  /\ family = "hero"
  /\ Len(c.match.teams) = 2
  /\ Len(c.match.teams[1].players) = 1
  /\ Len(c.match.teams[2].players) = 1
  /\ RanksIndex(c.match.teams[1].average_badge_team) = 10
  /\ RanksIndex(c.match.teams[2].average_badge_team) = 12
  /\ c.before = EmptyDict
  /\ c.match.teams[1].won

\* C20 as stated: in the cold-start scenario the error run_regression returns
\* is strictly greater than 0.
C20_ColdStartErrorIsPositive ==
  \A k \in 1..Len(calls) :
    ColdStart(calls[k]) => (calls[k].result.ok /\ calls[k].result.error > 0)

\* C20 as amended: in the cold-start scenario the error run_regression
\* returns is exactly 0, both predictions being the true rank indexes.
C20_ColdStartErrorIsZero ==
  \A k \in 1..Len(calls) :
    ColdStart(calls[k]) => (calls[k].result.ok /\ calls[k].result.error = 0)

C20_Witness ==
  \E k \in 1..Len(calls) :
    /\ ColdStart(calls[k])
    /\ calls[k].result.updates # calls[k].result.start

\* C21: in the cold-start scenario the outcome pass raises team0's rating
\* above 10 and lowers team1's below 12, and the anchor pass moves each back
\* toward its tier index without reaching or crossing it: team0's returned
\* rating is strictly above 10 and team1's strictly below 12.
C21_ColdStartKeepsUpsetDirection ==
  \A k \in 1..Len(calls) :
    ColdStart(calls[k]) =>
      /\ calls[k].result.ok
      /\ \A key \in Range(calls[k].match.teams[1].players) :
           /\ calls[k].result.moved[key] > 10 * SCALE
           /\ calls[k].result.updates[key] < calls[k].result.moved[key]
           /\ calls[k].result.updates[key] > 10 * SCALE
      /\ \A key \in Range(calls[k].match.teams[2].players) :
           /\ calls[k].result.moved[key] < 12 * SCALE
           /\ calls[k].result.updates[key] > calls[k].result.moved[key]
           /\ calls[k].result.updates[key] < 12 * SCALE

\* a returned call of hero_mmr_calc.run_regression on two teams of equal size
\* and identical tier, none of whose entities is in the snapshot, team0 winning
EvenColdStart(c) ==
  /\ family = "hero"
  /\ c.result.ok
  /\ Len(c.match.teams[1].players) = Len(c.match.teams[2].players)
  /\ c.match.teams[1].average_badge_team = c.match.teams[2].average_badge_team
  /\ \A key \in Participants(c.match) : key \notin DOMAIN c.before
  /\ c.match.teams[1].won

\* C22: for two teams of equal size and identical tier, all cold start, team0
\* winning, the outcome pass adds one strictly positive amount to every team0
\* rating and subtracts exactly that amount from every team1 rating, and the
\* recomputed anchor errors are negations of each other.
C22_EvenColdStartIsSymmetric ==
  \A k \in 1..Len(calls) :
    EvenColdStart(calls[k]) =>
      /\ \E shift \in {calls[k].result.moved[calls[k].match.teams[1].players[1]]
                        - calls[k].result.start[calls[k].match.teams[1].players[1]]} :
           /\ shift > 0
           /\ \A key \in Range(calls[k].match.teams[1].players) :
                calls[k].result.moved[key] = calls[k].result.start[key] + shift
           /\ \A key \in Range(calls[k].match.teams[2].players) :
                calls[k].result.moved[key] = calls[k].result.start[key] - shift
      /\ calls[k].result.new_errors[1] = -calls[k].result.new_errors[2]

C22_Witness ==
  \E k \in 1..Len(calls) :
    /\ EvenColdStart(calls[k])
    /\ Len(calls[k].match.teams[1].players) = 2
    /\ calls[k].match.teams[1].average_badge_team = TOP_BADGE
    /\ calls[k].result.new_errors[1] < 0

\* RANKS holds its tier codes in strictly increasing order
RanksStrictlyIncreasing ==
  \A j, k \in 1..Len(RANKS) : j < k => RANKS[j] < RANKS[k]

\* the rank index grows with the tier code, in both lookups
IndexIsMonotonic ==
  \A a, b \in Range(RANKS) :
    a < b => (RanksIndex(a) < RanksIndex(b) /\ RankToIndex(a) < RankToIndex(b))

\* the index of a code is the zero-based position of its one occurrence
IndexIsPosition ==
  \A k \in 1..Len(RANKS) :
    RanksIndex(RANKS[k]) = k - 1 /\ RankToIndex(RANKS[k]) = k - 1

\* C23: RANKS is strictly increasing, so the rank index is monotonic in the
\* tier code, and the index of a code is the position of its one occurrence,
\* in RANKS.index and in RANK_TO_INDEX; two cold-start teams of different
\* tiers are seeded in the order of their tier codes.
C23_RankIndexIsMonotonic ==
  /\ RanksStrictlyIncreasing
  /\ IndexIsMonotonic
  /\ IndexIsPosition
  /\ \A k \in 1..Len(calls) :
       (calls[k].result.ok /\ Len(calls[k].match.teams) = 2) =>
         \A key0 \in Range(calls[k].match.teams[1].players) \ DOMAIN calls[k].before :
         \A key1 \in Range(calls[k].match.teams[2].players) \ DOMAIN calls[k].before :
           (calls[k].match.teams[1].average_badge_team
              < calls[k].match.teams[2].average_badge_team)
             => calls[k].result.start[key0] < calls[k].result.start[key1]

C23_Witness ==
  \E k \in 1..Len(calls) :
    /\ calls[k].result.ok
    /\ Len(calls[k].match.teams) = 2
    /\ calls[k].before = EmptyDict
    /\ calls[k].match.teams[1].average_badge_team = RANKS[11]
    /\ calls[k].match.teams[2].average_badge_team = TOP_BADGE
    /\ calls[k].result.start[calls[k].match.teams[2].players[1]]
         = (Len(RANKS) - 1) * SCALE

\* both lookups fail for every code from 0 to past the top that is no entry
UnknownCodesFail ==
  \A code \in (0..(TOP_BADGE + 4)) \ Range(RANKS) :
    RanksIndex(code) < 0 /\ RankToIndex(code) < 0

\* C24: the rank-index lookup fails for every tier code that is not in RANKS
\* (1..10, 17..20, 117, ...), in RANKS.index and in RANK_TO_INDEX, and a call
\* of run_regression on a match with such a code raises: an unknown code is
\* never given the index of a neighbouring or default tier.
C24_UnknownCodeFailsLookup ==
  /\ UnknownCodesFail
  /\ \A k \in 1..Len(calls) :
       (\E t \in 1..Len(calls[k].match.teams) :
          calls[k].match.teams[t].average_badge_team \notin Range(RANKS))
         => ~calls[k].result.ok

C24_Witness ==
  \E k \in 1..Len(calls) :
    /\ Len(calls[k].match.teams) = 2
    /\ calls[k].match.teams[1].average_badge_team \in Range(RANKS)
    /\ calls[k].match.teams[2].average_badge_team \notin Range(RANKS)
    /\ ~calls[k].result.ok
    /\ pc = "backoff"

\* C26: a flush before the end of the fetched list happens only when the
\* number of matches applied since the previous flush (or since the start of
\* the pass) equals the chunk size: no mid-pass flush writes a smaller batch.
C26_MidPassFlushWritesFullChunk ==
  [][(pc = "apply" /\ pc' = "apply" /\ i' = i + 1 /\ updates' = << >>)
       => Len(updates) + 1 = ChunkSize]_vars

\* the mean of the ratings d holds for team t of the call c
TeamMean(c, t, d) ==
  RankPred([key \in Range(c.match.teams[t].players) |-> d[key]])

\* the signed distance of that mean from the true rank index of the team
TierGap(c, t, d) ==
  RanksIndex(c.match.teams[t].average_badge_team) * SCALE - TeamMean(c, t, d)

\* C27: outside the tie-break case and with the default constants, the anchor
\* pass never moves a team's mean rating away from its true rank index: the
\* distance after the anchor pass is |1 - learningRate/n| times the distance
\* after the outcome pass (to the resolution of the arithmetic), strictly
\* smaller whenever that distance is nonzero.
C27_AnchorPassShrinksTierGap ==
  \A k \in 1..Len(calls) :
    (family = "hero" /\ calls[k].result.ok /\ ~BothAtTop(calls[k])) =>
      \A t \in 1..2 :
        \E n \in {Len(calls[k].match.teams[t].players)} :
        \E gap \in {Abs(TierGap(calls[k], t, calls[k].result.moved))} :
        \E left \in {Abs(TierGap(calls[k], t, calls[k].result.updates))} :
          /\ left <= gap
          /\ gap # 0 => left < gap
          /\ Abs(10 * n * left - Abs(10 * n - LEARNING_RATE) * gap)
               <= (10 + LEARNING_RATE) * n

C27_Witness ==
  \E k \in 1..Len(calls) :
    /\ family = "hero"
    /\ calls[k].result.ok
    /\ ~BothAtTop(calls[k])
    /\ Len(calls[k].match.teams[1].players) = 1
    /\ Len(calls[k].match.teams[2].players) = 2
    /\ TierGap(calls[k], 1, calls[k].result.moved) < 0
    /\ TierGap(calls[k], 1, calls[k].result.updates) > 0
    /\ TierGap(calls[k], 2, calls[k].result.moved) > 0
    /\ TierGap(calls[k], 2, calls[k].result.updates) > 0

\* C28: the error a call on two teams returns is the mean of the absolute
\* values of the two teams' tier-target errors for the predictions made
\* before any rating is moved, with no win/loss term, and is never negative,
\* in both variants of run_regression.
C28_ErrorIsMeanOfTierTargetErrors ==
  \A k \in 1..Len(calls) :
    (calls[k].result.ok /\ Len(calls[k].match.teams) = 2) =>
      \E ranks \in {<< StartOf(calls[k], 1), StartOf(calls[k], 2) >>} :
      \E errors \in
           {TeamErrors(calls[k].match,
                       << RanksIndex(calls[k].match.teams[1].average_badge_team),
                          RanksIndex(calls[k].match.teams[2].average_badge_team) >>,
                       RankPreds(ranks), ranks)} :
        /\ calls[k].result.error = Div(Abs(errors[1]) + Abs(errors[2]), 2)
        /\ calls[k].result.error >= 0

\* a row of the history table of family fam: hero_mmr_history rows carry a
\* hero_id, mmr_history rows none
RowOf(fam, r) == (r.hero_id = NoHero) <=> (fam = "player")

\* C25: when the aggregate and the per-character loops run against the same
\* database, under every interleaving neither reads or writes a rating row
\* of the other: the start id and the snapshot of a loop are those of its own
\* table alone, the rows that appear in a table are rows of its own family,
\* and a write of the other program leaves this loop and its table as they
\* are, so that each loop stores what it stores when it runs alone.
C25_LoopsKeepToTheirOwnTable ==
  [][/\ (pc = "resume" /\ pc' = "fetch")
          => starting_id' = get_regression_starting_id(source, store)
     /\ (pc = "load" /\ pc' = "apply")
          => all_player_mmrs' \in get_all_player_mmrs(store, starting_id)
     /\ \A r \in store' \ store : RowOf(family, r)
     /\ \A r \in shelf' \ shelf : RowOf(Other(family), r)
     /\ shelf \subseteq shelf'
     /\ shelf' # shelf => UNCHANGED << store, pc, locals >>]_vars

C25_Witness ==
  /\ pc = "apply"
  /\ i = 0
  /\ all_player_mmrs # EmptyDict
  /\ \E r \in shelf : r.match_id <= starting_id
  /\ \E r \in store : r.match_id <= starting_id

\* C29: clamp_to_rank(r) returns the least rank index (0) for r below it, the
\* greatest rank index (the last position of RANKS, 66) for r above it, and r
\* unchanged in between.
C29_ClampsToIndexRange ==
  clamp.pc = "done" =>
    clamp.ret = IF clamp.mmr < 0 THEN 0
                ELSE IF clamp.mmr > (Len(RANKS) - 1) * SCALE
                THEN (Len(RANKS) - 1) * SCALE
                ELSE clamp.mmr

\* C30: call_steam_proxy makes at most MAX_RETRIES attempts: it returns the
\* response of the first attempt that succeeds without a further attempt, it
\* re-raises the exception of the third failed attempt, and it never reaches
\* the RuntimeError after the loop.
C30_ProxyRetriesAtMostThrice ==
  /\ proxy.pc # "idle" => proxy.attempts <= MAX_RETRIES
  /\ proxy.pc # "broken"
  /\ proxy.pc = "returned" =>
       /\ proxy.result \in Responses
       /\ proxy.attempts = Len(proxy.caught) + 1
  /\ (proxy.pc = "raised" /\ proxy.result # Interrupt) =>
       /\ proxy.attempts = MAX_RETRIES
       /\ Len(proxy.caught) = MAX_RETRIES
       /\ proxy.result = proxy.caught[MAX_RETRIES]
  /\ (proxy.pc = "try") => proxy.attempts = Len(proxy.caught)

C30_Witness ==
  /\ proxy.pc = "raised"
  /\ proxy.caught = << "ConnectionError", "HTTPError", "DecodeError" >>
  /\ proxy.result = "DecodeError"

\* C34: the outcome pass of hero_mmr_calc.run_regression raises the ratings
\* of a team only if the won flag of that team is true; for a match in which
\* neither team is marked as the winner it raises neither team.
C34_OutcomePassRaisesWinnerOnly ==
  \A k \in 1..Len(calls) :
    (family = "hero" /\ calls[k].result.ok) =>
      \A t \in 1..2 :
        (\E key \in Range(calls[k].match.teams[t].players) :
           calls[k].result.moved[key] > calls[k].result.start[key])
          => calls[k].match.teams[t].won

\* the total run_regression adds to the ratings of team t of the call c
TeamGain(c, t) ==
  SumValues(c.result.updates, Range(c.match.teams[t].players))
    - SumValues(c.result.start, Range(c.match.teams[t].players))

\* C36: for a match in which both teams are at tier code 116 and have the
\* same number of players, run_regression conserves the sum of the ratings:
\* what the outcome pass and the anchor pass together add to team0's ratings
\* is what they take from team1's.
C36_TopTierConservesRatingSum ==
  \A k \in 1..Len(calls) :
    (/\ BothAtTop(calls[k])
     /\ Len(calls[k].match.teams[1].players)
          = Len(calls[k].match.teams[2].players))
      => TeamGain(calls[k], 1) = -TeamGain(calls[k], 2)

C36_Witness ==
  \E k \in 1..Len(calls) :
    /\ BothAtTop(calls[k])
    /\ Len(calls[k].match.teams[1].players) = 2
    /\ Len(calls[k].match.teams[2].players) = 2
    /\ \E key \in Participants(calls[k].match) : key \in DOMAIN calls[k].before
    /\ calls[k].result.new_errors[1] > 0
    /\ TeamGain(calls[k], 1) < 0

\* C37: in every state of a pass the pending buffer holds the ratings of at
\* most ChunkSize matches, each of them a match of the fetched list that has
\* been applied in this pass and of which this pass has written no row yet.
C37_BufferIsBoundedAndUnflushed ==
  /\ Len(updates) <= ChunkSize
  /\ \A k \in 1..Len(updates) :
       /\ \E j \in 1..i : j <= Len(matches)
                            /\ matches[j].match_id = updates[k][1]
       /\ \A r \in cycle_rows : r.match_id # updates[k][1]

C37_Witness ==
  /\ pc = "apply"
  /\ i = ChunkSize + 1
  /\ updates = << >>
  /\ \E r \in cycle_rows : r.match_id = matches[ChunkSize + 1].match_id
  /\ \E r \in cycle_rows : r.match_id = matches[2].match_id

\* the source holds the match id / the store holds a row of the match id
InSource(id) == \E m \in source : m.match_id = id
Rated(id) == \E r \in store : r.match_id = id

\* C31: if no store or source call fails and every match is well-formed,
\* every eligible match with an id greater than the epoch id is eventually
\* applied and its ratings written to the store, in whatever order the
\* matches arrive in the source.
C31_EveryMatchIsEventuallyRated ==
  \A id \in MatchIds : InSource(id) ~> Rated(id)

\* C32: across any number of cycles without failures no match is written to
\* the store twice: a match of which the store holds rows is never in the
\* list a later cycle has fetched and is applying, nor in its buffer.
C32_RatedMatchIsNeverFetchedAgain ==
  /\ pc \in {"load", "apply"} =>
       \A k \in (i + 1)..Len(matches) : ~Rated(matches[k].match_id)
  /\ \A k \in 1..Len(updates) : ~Rated(updates[k][1])

\* the source holds the match id with an unknown tier code / with known ones
BadInSource(id) ==
  \E m \in source : /\ m.match_id = id
                    /\ \/ m.average_badge_team0 \notin Range(RANKS)
                       \/ m.average_badge_team1 \notin Range(RANKS)
GoodInSource(id) ==
  \E m \in source : /\ m.match_id = id
                    /\ m.average_badge_team0 \in Range(RANKS)
                    /\ m.average_badge_team1 \in Range(RANKS)

\* C33: a match with an unknown tier code does not block the loop forever:
\* with a working store, every well-formed match with a greater id than the
\* bad match is eventually rated and written to the store.
C33_BadMatchDoesNotBlockLaterOnes ==
  \A bad \in MatchIds : \A good \in MatchIds :
    (bad < good /\ BadInSource(bad) /\ GoodInSource(good)) ~> Rated(good)

\* C35: for two fixed rosters of 6 entities each that play each other again and
\* again at fixed tiers below the top tier, starting from cold start, after
\* any number of matches and any sequence of wins and losses the mean rating
\* of each team is within sensitivity * (n / learningRate - 1) = 3.18 rank
\* indexes of its true rank index.
C35_SeriesDriftIsBounded ==
  \A k \in 1..Len(calls) :
    calls[k].result.ok =>
      \A t \in 1..2 :
        Abs(TierGap(calls[k], t, calls[k].result.updates)) <= DriftBound

C35_Witness ==
  /\ Len(calls) = MaxSeries
  /\ calls[1].before = EmptyDict
  /\ \A k \in 1..Len(calls) : calls[k].result.ok /\ calls[k].match.teams[1].won
  /\ \A k \in 1..(Len(calls) - 1) :
       TierGap(calls[k + 1], 1, calls[k + 1].result.updates)
         < TierGap(calls[k], 1, calls[k].result.updates)
  /\ TierGap(calls[MaxSeries], 1, calls[MaxSeries].result.updates) < -SCALE
  /\ TierGap(calls[MaxSeries], 2, calls[MaxSeries].result.updates) > SCALE

====
